---- MODULE Spec2Model ----
(***************************************************************************)
(* State-machine model of src/validation/validate_data_points.py: the      *)
(* batch driver main() and the per-entry pipeline validate_data_point()    *)
(* (entry loading, harness invocation, report reading, classification).    *)
(*                                                                         *)
(* Strings whose characters matter (file names, instance identifiers) are  *)
(* sequences of one-character strings.  A path is a sequence of such       *)
(* strings, one per component.  The patch text is carried through the      *)
(* code unchanged and never inspected, so it is left out of the records.   *)
(***************************************************************************)
EXTENDS Integers, Sequences, FiniteSets, TLC

(***************************************************************************)
(* Bounds of the model.                                                    *)
(***************************************************************************)
MaxFiles == 3
MaxTests == 2

Tests == 1..MaxTests

(***************************************************************************)
(* String helpers.                                                         *)
(***************************************************************************)
FailMarker == <<"-", "f", "a", "i", "l">>
JsonExt == <<".", "j", "s", "o", "n">>
FailJsonSuffix == FailMarker \o JsonExt

EndsWith(s, suf) ==
    /\ Len(s) >= Len(suf)
    /\ SubSeq(s, Len(s) - Len(suf) + 1, Len(s)) = suf

StartsWith(s, pre) ==
    /\ Len(s) >= Len(pre)
    /\ SubSeq(s, 1, Len(pre)) = pre

\* str.replace(old, ""): every non-overlapping occurrence of old, scanning
\* from the left, is deleted.
RECURSIVE ReplaceAll(_, _)
ReplaceAll(s, old) ==
    IF Len(s) < Len(old) THEN s
    ELSE IF StartsWith(s, old)
         THEN ReplaceAll(SubSeq(s, Len(old) + 1, Len(s)), old)
         ELSE <<Head(s)>> \o ReplaceAll(Tail(s), old)

(***************************************************************************)
(* Inputs: names a directory may hold, identifiers an entry may declare.   *)
(***************************************************************************)
NameGolden == <<"a">> \o JsonExt
NameFail == <<"a">> \o FailJsonSuffix
NameFailNoDash == <<"f", "a", "i", "l">> \o JsonExt
NameOther == <<"a", ".", "t", "x", "t">>
FileNames == {NameGolden, NameFail, NameFailNoDash, NameOther}

IdPlain == <<"p">>
IdFail == <<"p">> \o FailMarker
IdInner == <<"a">> \o FailMarker \o <<"-", "b">> \o FailMarker
InstanceIds == {IdPlain, IdFail, IdInner}

FieldNames == {"instance_id", "patch", "FAIL_TO_PASS", "PASS_TO_PASS"}

\* config.json "required_fields": the fields the pipeline consumes.
RequiredFields == FieldNames

\* A serialized test list: json.loads either yields the list or raises.
Encoded ==
    {[ok |-> TRUE, tests |-> T] : T \in SUBSET Tests}
        \cup {[ok |-> FALSE, tests |-> {}]}

DataPoint(fields, id, F, P) ==
    [fields |-> fields, instance_id |-> id, FAIL_TO_PASS |-> F,
     PASS_TO_PASS |-> P]

EncodedSet(T) == [ok |-> TRUE, tests |-> T]
Unparsable == [ok |-> FALSE, tests |-> {}]

\* The parsed content of an entry file: every field present, or one missing.
DataPoints ==
    {DataPoint(FieldNames, i, F, P) :
        i \in InstanceIds, F \in Encoded, P \in Encoded}
      \cup {DataPoint(FieldNames \ {f}, IdPlain, EncodedSet({}),
                      EncodedSet({})) : f \in FieldNames}

\* What opening and parsing an entry file yields.
ReadErrors == {"JSONDecodeError", "FileNotFoundError", "OSError"}

NoDataPoint == DataPoint({}, <<>>, Unparsable, Unparsable)

EntryFile(read, dp) == [read |-> read, dp |-> dp]

EntryFiles ==
    {EntryFile(r, NoDataPoint) : r \in ReadErrors}
      \cup {EntryFile("ok", d) : d \in DataPoints}

\* The entry files of the batch runs.
BatchEntryFiles ==
    {EntryFile(r, NoDataPoint) : r \in ReadErrors}
      \cup {EntryFile("ok", d) :
              d \in {DataPoint(FieldNames, IdPlain, EncodedSet({}),
                                EncodedSet({})),
                      DataPoint(FieldNames, IdPlain, EncodedSet({1}),
                                EncodedSet(Tests \ {1})),
                      DataPoint(FieldNames, IdPlain, Unparsable,
                                EncodedSet({})),
                      DataPoint(FieldNames \ {"patch"}, IdPlain,
                                EncodedSet({}), EncodedSet({}))}}

(***************************************************************************)
(* Reports.  A report file is unparsable, or a mapping that may or may not *)
(* hold the target identifier; under it each status category may or may    *)
(* not carry a "success" list.                                             *)
(***************************************************************************)
Categories == {"FAIL_TO_PASS", "PASS_TO_PASS"}

CategoryResults ==
    {[has |-> TRUE, success |-> T] : T \in SUBSET Tests}
        \cup {[has |-> FALSE, success |-> {}]}

NoStatus == [c \in Categories |-> [has |-> FALSE, success |-> {}]]

\* An unparsable report file.
NoReport == [parsable |-> FALSE, keyed |-> FALSE, tests_status |-> NoStatus]

ReportContents ==
    {[parsable |-> TRUE, keyed |-> TRUE, tests_status |-> st] :
        st \in [Categories -> CategoryResults]}
      \cup {[parsable |-> TRUE, keyed |-> FALSE, tests_status |-> NoStatus],
            NoReport}

Report(parsable, keyed, st) ==
    [parsable |-> parsable, keyed |-> keyed, tests_status |-> st]

AllPassReport ==
    Report(TRUE, TRUE, [c \in Categories |-> [has |-> TRUE, success |-> Tests]])
NonePassReport ==
    Report(TRUE, TRUE, [c \in Categories |-> [has |-> TRUE, success |-> {}]])

\* Reports an earlier run may have left behind.
StaleContents == {NoReport, AllPassReport}

(***************************************************************************)
(* Paths.                                                                  *)
(***************************************************************************)
LogsRoot == <<"l", "o", "g", "s">>
RunEvaluationDir ==
    <<"r", "u", "n", "_", "e", "v", "a", "l", "u", "a", "t", "i", "o", "n">>
GoldenDir == <<"g", "o", "l", "d", "e", "n">>
ReportName == <<"r", "e", "p", "o", "r", "t">> \o JsonExt

\* f"validation_{instance_id}_after"
RunId(instance_id) ==
    <<"v", "a", "l", "i", "d", "a", "t", "i", "o", "n", "_">>
        \o instance_id \o <<"_", "a", "f", "t", "e", "r">>

\* Path("logs") / run_id_after
LogDir(run_id) == <<LogsRoot, run_id>>

\* Path("logs") / "run_evaluation" / run_id / "golden" / id / "report.json"
ReportPath(run_id, target) ==
    <<LogsRoot, RunEvaluationDir, run_id, GoldenDir, target, ReportName>>

IsUnder(p, dir) == StartsWith(p, dir)

\* shutil.rmtree(dir): the directory and everything below it.
RmTreeDirs(ds, dir) == {d \in ds : ~IsUnder(d, dir)}
RmTreeFiles(fs, dir) ==
    [p \in {q \in DOMAIN fs : ~IsUnder(q, dir)} |-> fs[p]]

EmptyFiles == [p \in {} |-> NoReport]

WriteFile(fs, p, c) == [q \in DOMAIN fs \cup {p} |-> IF q = p THEN c ELSE fs[q]]

RemoveFile(fs, p) == [q \in DOMAIN fs \ {p} |-> fs[q]]

(***************************************************************************)
(* validate_data_point: the pure parts.                                    *)
(***************************************************************************)
\* data_point_path.name.endswith("-fail.json")
IsFailCase(name) == EndsWith(name, FailJsonSuffix)

\* The identifier handed to the harness and written to the prediction record.
BaseInstanceId(is_fail, instance_id) ==
    IF is_fail THEN ReplaceAll(instance_id, FailMarker) ELSE instance_id

\* Fields of required_fields that the entry lacks.
MissingFields(dp) == RequiredFields \ dp.fields

\* report_path_after.exists()
ReportExists(fs, p) == p \in DOMAIN fs

\* Union of the "success" lists of all categories under the target identifier.
ObservedSuccess(report) ==
    IF ~report.keyed THEN {}
    ELSE UNION {IF report.tests_status[c].has
                THEN report.tests_status[c].success
                ELSE {} : c \in Categories}

Verdict(accept, reason, tests, classified) ==
    [accept |-> accept, reason |-> reason, tests |-> tests,
     classified |-> classified]

NoVerdict == Verdict(FALSE, "none", {}, FALSE)

\* GoldenVerdict without the PASS_TO_PASS check.
GoldenVerdictNoPass(F, P, S) ==
    IF F \ S # {} THEN Verdict(FALSE, "MissingFailToPass", F \ S, TRUE)
    ELSE Verdict(TRUE, "Validated", {}, TRUE)

\* The else branch: normal entries.
GoldenVerdict(F, P, S) ==
    IF F \ S # {} THEN Verdict(FALSE, "MissingFailToPass", F \ S, TRUE)
    ELSE IF P \ S # {} THEN Verdict(FALSE, "MissingPassToPass", P \ S, TRUE)
    ELSE Verdict(TRUE, "Validated", {}, TRUE)

\* FailVerdict without the PASS_TO_PASS check.
FailVerdictNoPass(F, P, S) ==
    IF F \ S = {} THEN Verdict(FALSE, "AllFailToPassPassed", F, TRUE)
    ELSE Verdict(TRUE, "ValidatedFailCase", F \ S, TRUE)

\* FailVerdict without the check that some FAIL_TO_PASS test failed.
FailVerdictNoFailCheck(F, P, S) ==
    IF P \ S # {} THEN Verdict(FALSE, "MissingPassToPass", P \ S, TRUE)
    ELSE Verdict(TRUE, "ValidatedFailCase", F \ S, TRUE)

\* The is_fail_case branch.
FailVerdict(F, P, S) ==
    IF F \ S = {} THEN Verdict(FALSE, "AllFailToPassPassed", F, TRUE)
    ELSE IF P \ S # {} THEN Verdict(FALSE, "MissingPassToPass", P \ S, TRUE)
    ELSE Verdict(TRUE, "ValidatedFailCase", F \ S, TRUE)

ClassifyOutcome(is_fail, F, P, S) ==
    IF is_fail THEN FailVerdict(F, P, S) ELSE GoldenVerdict(F, P, S)

\* os.remove in the normal and the except path instead of in finally.
PredFilesKeptOnException(pf, path, how) ==
    IF how = "Exception" THEN pf ELSE RemoveFile(pf, path)

\* The prediction files left once the try statement around the harness call
\* is over; how is "returned", "ValueError" or "Exception".
PredFilesAfterTry(pf, path, how) == RemoveFile(pf, path)

\* all_successful overwritten by the last entry's result.
AllSuccessfulLastWins(all, ok) == ok

\* main: all_successful after one more entry.
AllSuccessfulAfter(all, ok) == all /\ ok

\* main: the status the process ends with once the loop is over.
FinalExitCode(all) == IF all THEN 0 ELSE 1

\* An uncaught exception ends the interpreter with status 1.
UncaughtExitCode == 1

\* files_to_validate for a directory: glob("*.json")
RECURSIVE Glob(_)
Glob(names) ==
    IF names = <<>> THEN <<>>
    ELSE IF EndsWith(Head(names), JsonExt)
         THEN <<Head(names)>> \o Glob(Tail(names))
         ELSE Glob(Tail(names))

(***************************************************************************)
(* State.                                                                  *)
(*   pathKind, dirEntries   what the command-line path denotes             *)
(*   files_to_validate, idx, all_successful   main's locals                *)
(*   pc                     position in main / validate_data_point         *)
(*   data_point, is_fail_case, base_instance_id, predictions_path_after,   *)
(*   report_after           validate_data_point's locals                   *)
(*   dirs, reports          the tree under logs/                           *)
(*   predFiles              the prediction files in the temp directory     *)
(*   verdict                what validate_data_point returns               *)
(*   exitCode, uncaught     how the process ended (-1: still running)      *)
(*   results, call, harnessCount, predCreated, fsOps, cleanOutcome         *)
(*                          history of the run, read only by properties    *)
(***************************************************************************)
VARIABLES pathKind, dirEntries, files_to_validate, idx, all_successful, pc,
          data_point, is_fail_case, base_instance_id, predictions_path_after,
          report_after, dirs, reports, predFiles, verdict, exitCode, uncaught,
          results, call, harnessCount, predCreated, fsOps, cleanOutcome

vars == <<pathKind, dirEntries, files_to_validate, idx, all_successful, pc,
          data_point, is_fail_case, base_instance_id, predictions_path_after,
          report_after, dirs, reports, predFiles, verdict, exitCode, uncaught,
          results, call, harnessCount, predCreated, fsOps, cleanOutcome>>

inputVars == <<pathKind, dirEntries>>
mainVars == <<files_to_validate, idx, all_successful>>
entryVars == <<data_point, is_fail_case, base_instance_id>>
treeVars == <<dirs, reports>>
endVars == <<exitCode, uncaught>>

NoCall ==
    [how |-> "none", instance_id |-> <<>>, run_id |-> <<>>,
     prediction_id |-> <<>>]

\* Sequences of distinct names, at most n long.
RECURSIVE Listings(_)
Listings(n) ==
    IF n = 0 THEN {<<>>}
    ELSE LET shorter == Listings(n - 1)
         IN shorter \cup
            {Append(l, f) : l \in {m \in shorter : Len(m) = n - 1},
                            f \in FileNames}

Distinct(l) == \A i, j \in 1..Len(l) : l[i] = l[j] => i = j

Tree(d, r) == [dirs |-> d, reports |-> r]

CleanTree == Tree({}, EmptyFiles)

\* What an earlier run can have left under logs/ for one identifier.
StaleTrees ==
    {CleanTree}
      \cup {Tree({LogDir(RunId(i))},
                 WriteFile(EmptyFiles,
                           ReportPath(RunId(i), BaseInstanceId(f, i)), c)) :
              i \in InstanceIds, f \in BOOLEAN, c \in StaleContents}

BatchStaleTrees ==
    {CleanTree}
      \cup {Tree({LogDir(RunId(IdPlain))},
                 WriteFile(EmptyFiles, ReportPath(RunId(IdPlain), IdPlain),
                           c)) : c \in StaleContents}

InitRun ==
    /\ files_to_validate = <<>>
    /\ idx = 1
    /\ all_successful = TRUE
    /\ pc = "main"
    /\ data_point = NoDataPoint
    /\ is_fail_case = FALSE
    /\ base_instance_id = <<>>
    /\ predictions_path_after = 0
    /\ report_after = NoReport
    /\ predFiles = [n \in {} |-> <<>>]
    /\ verdict = NoVerdict
    /\ exitCode = -1
    /\ uncaught = "none"
    /\ results = <<>>
    /\ call = NoCall
    /\ harnessCount = 0
    /\ predCreated = 0
    /\ fsOps = 0
    /\ cleanOutcome = "none"

\* The validator is given one entry file; logs/ may hold an earlier run.
Init ==
    /\ pathKind = "file"
    /\ dirEntries \in {<<f>> : f \in FileNames}
    /\ \E t \in StaleTrees : dirs = t.dirs /\ reports = t.reports
    /\ InitRun

\* The validator is given any path; logs/ may hold an earlier run of the
\* batch's identifier.
InitBatch ==
    /\ pathKind \in {"file", "dir", "invalid"}
    /\ dirEntries \in {l \in Listings(MaxFiles) : Distinct(l)}
    /\ pathKind = "file" => Len(dirEntries) = 1
    /\ pathKind = "invalid" => dirEntries = <<>>
    /\ \E t \in BatchStaleTrees : dirs = t.dirs /\ reports = t.reports
    /\ InitRun

(***************************************************************************)
(* main, lines 175-186: resolve the entry set.                             *)
(***************************************************************************)
ResolveFiles(kind, entries) ==
    IF kind = "file" THEN entries ELSE Glob(entries)

Resolve ==
    /\ pc = "main"
    /\ IF pathKind = "invalid" \/ ResolveFiles(pathKind, dirEntries) = <<>>
       THEN /\ pc' = "exit"
            /\ exitCode' = 1
            /\ UNCHANGED files_to_validate
       ELSE /\ pc' = "loop"
            /\ files_to_validate' = ResolveFiles(pathKind, dirEntries)
            /\ UNCHANGED exitCode
    /\ UNCHANGED <<inputVars, idx, all_successful, entryVars,
                   predictions_path_after, report_after, treeVars, predFiles,
                   verdict, uncaught, results, call, harnessCount,
                   predCreated, fsOps, cleanOutcome>>

\* An exception nothing catches unwinds validate_data_point and main.
Crash(what) ==
    /\ pc' = "crashed"
    /\ uncaught' = what
    /\ exitCode' = UncaughtExitCode

(***************************************************************************)
(* validate_data_point, lines 17-41: read the entry, check its fields.     *)
(***************************************************************************)
LoadFrom(entryFiles) ==
    /\ pc = "loop"
    /\ idx <= Len(files_to_validate)
    /\ cleanOutcome' = "none"
    /\ call' = NoCall
    /\ \E e \in entryFiles :
         CASE e.read = "JSONDecodeError" ->
                /\ pc' = "return"
                /\ verdict' = Verdict(FALSE, "InvalidJSON", {}, FALSE)
                /\ UNCHANGED <<entryVars, endVars>>
           [] e.read = "FileNotFoundError" ->
                /\ pc' = "return"
                /\ verdict' = Verdict(FALSE, "FileNotFound", {}, FALSE)
                /\ UNCHANGED <<entryVars, endVars>>
           [] e.read = "OSError" ->
                /\ Crash("EntryUnreadable")
                /\ verdict' = NoVerdict
                /\ UNCHANGED entryVars
           [] OTHER ->
                /\ is_fail_case' = IsFailCase(files_to_validate[idx])
                /\ IF MissingFields(e.dp) # {}
                   THEN /\ pc' = "return"
                        /\ verdict' = Verdict(FALSE, "MissingField", {}, FALSE)
                        /\ UNCHANGED <<data_point, base_instance_id>>
                   ELSE /\ pc' = "prepare"
                        /\ data_point' = e.dp
                        /\ verdict' = NoVerdict
                        /\ UNCHANGED base_instance_id
                /\ UNCHANGED endVars
    /\ UNCHANGED <<inputVars, mainVars, predictions_path_after, report_after,
                   treeVars, predFiles, results, harnessCount, predCreated,
                   fsOps>>

Load == LoadFrom(EntryFiles)

LoadBatch == LoadFrom(BatchEntryFiles)

(***************************************************************************)
(* validate_data_point, lines 54-76: resolve the target identifier, remove *)
(* the run's log directory, write the prediction record.                   *)
(***************************************************************************)
\* The prediction record; of its fields only instance_id varies.
Prediction(target) == target

Prepare ==
    /\ pc = "prepare"
    /\ LET run_id == RunId(data_point.instance_id)
           target == BaseInstanceId(is_fail_case, data_point.instance_id)
           stale == LogDir(run_id) \in dirs
       IN /\ base_instance_id' = target
          /\ dirs' = IF stale THEN RmTreeDirs(dirs, LogDir(run_id)) ELSE dirs
          /\ reports' = IF stale THEN RmTreeFiles(reports, LogDir(run_id))
                        ELSE reports
          /\ predictions_path_after' = predCreated + 1
          /\ predFiles' = WriteFile(predFiles, predCreated + 1,
                                    Prediction(target))
          /\ predCreated' = predCreated + 1
          /\ fsOps' = fsOps + 1 + (IF stale THEN 1 ELSE 0)
    /\ pc' = "harness"
    /\ UNCHANGED <<inputVars, mainVars, data_point, is_fail_case,
                   report_after, verdict, endVars, results, call,
                   harnessCount, cleanOutcome>>

(***************************************************************************)
(* validate_data_point, lines 78-102: the harness call inside              *)
(* try / except ValueError / finally.  The harness is a black box: it      *)
(* returns or raises, and when it returns it may have written a report.    *)
(***************************************************************************)
Behaviour(how, wrote, c) == [how |-> how, wrote |-> wrote, content |-> c]

HarnessBehaviours ==
    {Behaviour("ValueError", FALSE, NoReport),
     Behaviour("Exception", FALSE, NoReport),
     Behaviour("returned", FALSE, NoReport)}
      \cup {Behaviour("returned", TRUE, c) : c \in ReportContents}

\* The harness behaviours of the batch runs.
BatchHarnessBehaviours ==
    {Behaviour("ValueError", FALSE, NoReport),
     Behaviour("Exception", FALSE, NoReport),
     Behaviour("returned", FALSE, NoReport),
     Behaviour("returned", TRUE, NoReport),
     Behaviour("returned", TRUE, AllPassReport),
     Behaviour("returned", TRUE, NonePassReport)}

\* A missing report read as an empty one.
ReadReportFileMissingAsEmpty(fs, p) ==
    IF ~ReportExists(fs, p)
    THEN [status |-> "ok", report |-> Report(TRUE, FALSE, NoStatus)]
    ELSE IF ~fs[p].parsable THEN [status |-> "malformed", report |-> NoReport]
    ELSE [status |-> "ok", report |-> fs[p]]

\* The report file as the reader finds it.
ReadReportFile(fs, p) ==
    IF ~ReportExists(fs, p) THEN [status |-> "missing", report |-> NoReport]
    ELSE IF ~fs[p].parsable THEN [status |-> "malformed", report |-> NoReport]
    ELSE [status |-> "ok", report |-> fs[p]]

\* What lines 104-157 yield for a given tree under logs/.
OutcomeAfterHarness(fs, p, is_fail, dp) ==
    LET r == ReadReportFile(fs, p)
    IN IF r.status = "missing" THEN "reject"
       ELSE IF r.status = "malformed" THEN "crash"
       ELSE IF ~dp.FAIL_TO_PASS.ok \/ ~dp.PASS_TO_PASS.ok THEN "crash"
       ELSE IF ClassifyOutcome(is_fail, dp.FAIL_TO_PASS.tests,
                               dp.PASS_TO_PASS.tests,
                               ObservedSuccess(r.report)).accept
            THEN "accept" ELSE "reject"

\* What the same entry and the same harness behaviour yield when nothing
\* exists under logs/ beforehand.
OutcomeOnCleanTree(b, p, is_fail, dp) ==
    IF b.how = "ValueError" THEN "reject"
    ELSE IF b.how = "Exception" THEN "crash"
    ELSE OutcomeAfterHarness(IF b.wrote
                             THEN WriteFile(EmptyFiles, p, b.content)
                             ELSE EmptyFiles, p, is_fail, dp)

RunHarnessFrom(behaviours) ==
    /\ pc = "harness"
    /\ \E b \in behaviours :
         LET run_id == RunId(data_point.instance_id)
             p == ReportPath(run_id, base_instance_id)
         IN /\ call' = [how |-> b.how, instance_id |-> base_instance_id,
                        run_id |-> run_id,
                        prediction_id |-> predFiles[predictions_path_after]]
            /\ reports' = IF b.wrote THEN WriteFile(reports, p, b.content)
                          ELSE reports
            /\ predFiles' =
                   PredFilesAfterTry(predFiles, predictions_path_after, b.how)
            /\ fsOps' = fsOps + 1 + (IF b.wrote THEN 1 ELSE 0)
            /\ cleanOutcome' =
                   OutcomeOnCleanTree(b, p, is_fail_case, data_point)
            /\ CASE b.how = "returned" ->
                      /\ pc' = "report"
                      /\ UNCHANGED <<verdict, endVars>>
                 [] b.how = "ValueError" ->
                      /\ pc' = "return"
                      /\ verdict' =
                             Verdict(FALSE, "HarnessFailure", {}, FALSE)
                      /\ UNCHANGED endVars
                 [] OTHER ->
                      /\ Crash("HarnessException")
                      /\ UNCHANGED verdict
    /\ harnessCount' = harnessCount + 1
    /\ UNCHANGED <<inputVars, mainVars, entryVars, predictions_path_after,
                   report_after, dirs, results, predCreated>>

RunHarness == RunHarnessFrom(HarnessBehaviours)

RunHarnessBatch == RunHarnessFrom(BatchHarnessBehaviours)

(***************************************************************************)
(* validate_data_point, lines 104-111: locate and parse the report.        *)
(***************************************************************************)
ReadReport ==
    /\ pc = "report"
    /\ LET r == ReadReportFile(reports,
                               ReportPath(RunId(data_point.instance_id),
                                          base_instance_id))
       IN CASE r.status = "missing" ->
                 /\ pc' = "return"
                 /\ verdict' = Verdict(FALSE, "ReportMissing", {}, FALSE)
                 /\ UNCHANGED <<report_after, endVars>>
            [] r.status = "malformed" ->
                 /\ Crash("MalformedReport")
                 /\ UNCHANGED <<report_after, verdict>>
            [] OTHER ->
                 /\ pc' = "classify"
                 /\ report_after' = r.report
                 /\ UNCHANGED <<verdict, endVars>>
    /\ UNCHANGED <<inputVars, mainVars, entryVars, predictions_path_after,
                   treeVars, predFiles, results, call, harnessCount,
                   predCreated, fsOps, cleanOutcome>>

(***************************************************************************)
(* validate_data_point, lines 113-157: the outcome classifier.             *)
(***************************************************************************)
Classify ==
    /\ pc = "classify"
    /\ IF ~data_point.FAIL_TO_PASS.ok \/ ~data_point.PASS_TO_PASS.ok
       THEN /\ Crash("MalformedTestList")
            /\ UNCHANGED verdict
       ELSE /\ pc' = "return"
            /\ verdict' = ClassifyOutcome(is_fail_case,
                                          data_point.FAIL_TO_PASS.tests,
                                          data_point.PASS_TO_PASS.tests,
                                          ObservedSuccess(report_after))
            /\ UNCHANGED endVars
    /\ UNCHANGED <<inputVars, mainVars, entryVars, predictions_path_after,
                   report_after, treeVars, predFiles, results, call,
                   harnessCount, predCreated, fsOps, cleanOutcome>>

(***************************************************************************)
(* main, lines 189-191: validate_data_point has returned; its locals are   *)
(* gone, the loop moves to the next file.                                  *)
(***************************************************************************)
Return ==
    /\ pc = "return"
    /\ all_successful' = AllSuccessfulAfter(all_successful, verdict.accept)
    /\ results' = Append(results, verdict.accept)
    /\ idx' = idx + 1
    /\ pc' = "loop"
    /\ data_point' = NoDataPoint
    /\ is_fail_case' = FALSE
    /\ base_instance_id' = <<>>
    /\ predictions_path_after' = 0
    /\ report_after' = NoReport
    /\ call' = NoCall
    /\ cleanOutcome' = "none"
    /\ UNCHANGED <<inputVars, files_to_validate, treeVars, predFiles, verdict,
                   endVars, harnessCount, predCreated, fsOps>>

(***************************************************************************)
(* main, lines 193-197: the loop is over.                                  *)
(***************************************************************************)
Finish ==
    /\ pc = "loop"
    /\ idx > Len(files_to_validate)
    /\ pc' = "exit"
    /\ exitCode' = FinalExitCode(all_successful)
    /\ UNCHANGED <<inputVars, mainVars, entryVars, predictions_path_after,
                   report_after, treeVars, predFiles, verdict, uncaught,
                   results, call, harnessCount, predCreated, fsOps,
                   cleanOutcome>>

Next ==
    \/ Resolve
    \/ Load
    \/ Prepare
    \/ RunHarness
    \/ ReadReport
    \/ Classify
    \/ Return
    \/ Finish

NextBatch ==
    \/ Resolve
    \/ LoadBatch
    \/ Prepare
    \/ RunHarnessBatch
    \/ ReadReport
    \/ Classify
    \/ Return
    \/ Finish

\* One entry file, every entry content and harness behaviour.
Spec == Init /\ [][Next]_vars

\* Any path, up to MaxFiles directory entries.
SpecBatch == InitBatch /\ [][NextBatch]_vars

TypeOK ==
    /\ pc \in {"main", "loop", "prepare", "harness", "report", "classify",
               "return", "exit", "crashed"}
    /\ exitCode \in {-1, 0, 1}
    /\ idx \in 1..(Len(files_to_validate) + 1)
    /\ Len(results) <= Len(files_to_validate)

(***************************************************************************)
(* Vocabulary of the properties, stated without the operators above.       *)
(***************************************************************************)
InEntry == pc \in {"prepare", "harness", "report", "classify", "return"}

Terminated == pc \in {"exit", "crashed"}

\* The file name being validated ends in "-fail.json".
FailNamed ==
    LET n == files_to_validate[idx]
    IN /\ Len(n) >= 10
       /\ \A k \in 1..10 :
            n[Len(n) - 10 + k]
              = <<"-", "f", "a", "i", "l", ".", "j", "s", "o", "n">>[k]

DeclaredF == data_point.FAIL_TO_PASS.tests
DeclaredP == data_point.PASS_TO_PASS.tests

\* A test the loaded report lists as successful in some category.
Succeeded(t) ==
    /\ report_after.keyed
    /\ \E c \in Categories :
         /\ report_after.tests_status[c].has
         /\ t \in report_after.tests_status[c].success

Classified == pc = "return" /\ verdict.classified

\* The declared identifier without one trailing "-fail".
SuffixStripped(id) ==
    IF Len(id) >= 5 /\ SubSeq(id, Len(id) - 4, Len(id)) = FailMarker
    THEN SubSeq(id, 1, Len(id) - 5)
    ELSE id

\* C1: a golden entry that reaches the classifier is accepted if and only if
\* every FAIL_TO_PASS test and every PASS_TO_PASS test is listed as a
\* success in some category of the report.
C1_GoldenPolicy ==
    (Classified /\ ~FailNamed) =>
        (verdict.accept <=>
            /\ \A t \in DeclaredF : Succeeded(t)
            /\ \A t \in DeclaredP : Succeeded(t))

C1_Witness ==
    /\ Classified
    /\ ~FailNamed
    /\ verdict.accept
    /\ DeclaredF # {}
    /\ DeclaredP # {}
    /\ DeclaredF \cap DeclaredP = {}
    /\ \E c \in Categories : ~report_after.tests_status[c].has

\* C2: a fail-case entry that reaches the classifier is accepted if and only
\* if some FAIL_TO_PASS test is not a success and every PASS_TO_PASS test is.
C2_FailPolicy ==
    (Classified /\ FailNamed) =>
        (verdict.accept <=>
            /\ \E t \in DeclaredF : ~Succeeded(t)
            /\ \A t \in DeclaredP : Succeeded(t))

C2_Witness ==
    /\ Classified
    /\ FailNamed
    /\ verdict.accept
    /\ DeclaredP # {}
    /\ \E t \in DeclaredF : Succeeded(t)

\* C3: whatever goes wrong with one entry, the entry is recorded as rejected
\* and main still validates every other entry: a run over a non-empty entry
\* set never ends on an uncaught failure and ends with one result per entry.
C3_Isolation ==
    (Terminated /\ files_to_validate # <<>>) =>
        /\ pc = "exit"
        /\ Len(results) = Len(files_to_validate)

\* C4: the process ends with status 0 exactly when the path is valid, the
\* entry set is non-empty and every entry was accepted, with a nonzero status
\* otherwise; an invalid path or an empty entry set ends it before any entry
\* is processed, any harness call and any file creation or removal.
ValidPath == pathKind \in {"file", "dir"}

EntryCount ==
    IF pathKind = "file" THEN 1
    ELSE IF pathKind = "dir"
         THEN Cardinality({i \in 1..Len(dirEntries) :
                             EndsWith(dirEntries[i], JsonExt)})
         ELSE 0

AllAccepted ==
    /\ Len(results) = EntryCount
    /\ \A i \in 1..Len(results) : results[i]

C4_FinalStatus ==
    /\ ~Terminated => exitCode = -1
    /\ Terminated =>
         /\ exitCode \in {0, 1}
         /\ exitCode = 0 <=> (ValidPath /\ EntryCount > 0 /\ AllAccepted)
    /\ (Terminated /\ (~ValidPath \/ EntryCount = 0)) =>
         /\ results = <<>>
         /\ harnessCount = 0
         /\ predCreated = 0
         /\ fsOps = 0

C4_Witness ==
    /\ pc = "exit"
    /\ exitCode = 0
    /\ Len(results) >= 2
    /\ harnessCount >= 2

\* C5: for every harness behaviour, validating an entry over stale state of
\* an earlier run under the same run identifier ends as validating it over
\* an empty logs tree does.
RealOutcome ==
    IF pc = "crashed" THEN "crash"
    ELSE IF verdict.accept THEN "accept" ELSE "reject"

C5_CleanSlate ==
    (pc \in {"return", "crashed"} /\ cleanOutcome # "none") =>
        RealOutcome = cleanOutcome

\* C6: a prediction file exists only between its creation and the end of the
\* try statement around the harness call; one is created per harness call,
\* never two exist at once and none is left when an entry or the run ends.
C6_ScopedPrediction ==
    /\ Cardinality(DOMAIN predFiles) <= 1
    /\ DOMAIN predFiles # {} => pc = "harness"
    /\ pc # "harness" => predCreated = harnessCount
    /\ pc = "harness" =>
         /\ predCreated = harnessCount + 1
         /\ DOMAIN predFiles = {predictions_path_after}

C6_Witness ==
    /\ pc = "crashed"
    /\ uncaught = "HarnessException"
    /\ predCreated >= 2
    /\ DOMAIN predFiles = {}

\* C7: fail-case classification follows the file name alone; a fail-case
\* entry's harness call and prediction record carry the declared identifier
\* with its trailing "-fail" stripped and nothing else changed, any other
\* entry's carry the declared identifier unchanged.
ExpectedTarget ==
    IF FailNamed THEN SuffixStripped(data_point.instance_id)
    ELSE data_point.instance_id

C7_IdentifierResolution ==
    /\ pc \in {"prepare", "harness", "report", "classify"} =>
         is_fail_case = FailNamed
    /\ pc = "harness" => predFiles[predictions_path_after] = ExpectedTarget
    /\ (InEntry /\ call.how # "none") =>
         /\ call.instance_id = ExpectedTarget
         /\ call.prediction_id = ExpectedTarget

\* C8: when the harness returned and no report exists at the report path,
\* the entry is rejected as ReportMissing without being classified, nothing
\* is left uncaught, and main goes on to the next entry.
HarnessReturnedNoReport ==
    /\ call.how = "returned"
    /\ pc # "report"
    /\ ~ReportExists(reports, ReportPath(call.run_id, call.instance_id))

C8_MissingReport ==
    /\ HarnessReturnedNoReport =>
         /\ pc = "return"
         /\ verdict = Verdict(FALSE, "ReportMissing", {}, FALSE)
         /\ exitCode = -1
    /\ verdict.reason = "ReportMissing" =>
         /\ ~verdict.accept
         /\ uncaught = "none"
         /\ pc \in {"return", "loop", "exit"}
         /\ pc = "loop" =>
              /\ idx = Len(results) + 1
              /\ ~results[Len(results)]
              /\ ~all_successful
         /\ pc = "exit" =>
              /\ Len(results) = Len(files_to_validate)
              /\ exitCode = 1

C8_Witness ==
    /\ pc = "loop"
    /\ verdict.reason = "ReportMissing"
    /\ idx <= Len(files_to_validate)
    /\ Len(results) >= 1

\* C9: a golden entry with a PASS_TO_PASS test missing from the successes is
\* rejected with a diagnostic naming exactly the missing PASS_TO_PASS tests,
\* also when FAIL_TO_PASS tests are missing.
MissingP == {t \in DeclaredP : ~Succeeded(t)}
MissingF == {t \in DeclaredF : ~Succeeded(t)}

C9_GoldenDiagnostics ==
    (Classified /\ ~FailNamed /\ MissingP # {}) =>
        /\ ~verdict.accept
        /\ verdict.tests = MissingP

\* C10: a fail-case entry whose FAIL_TO_PASS is a subset of its PASS_TO_PASS
\* (an empty FAIL_TO_PASS included) is never accepted.
C10_OverlapRejected ==
    (pc = "return" /\ FailNamed /\ data_point.FAIL_TO_PASS.ok
        /\ data_point.PASS_TO_PASS.ok /\ DeclaredF \subseteq DeclaredP) =>
        ~verdict.accept

C10_Witness ==
    /\ Classified
    /\ FailNamed
    /\ DeclaredF # {}
    /\ DeclaredF \subseteq DeclaredP
    /\ verdict.reason = "MissingPassToPass"
    /\ \E t \in DeclaredP : Succeeded(t)

====
